---- MODULE Spec2Model ----
(***************************************************************************)
(* A model of the journal converter scripts:                               *)
(*   src/JSON-converter.py                 (called "single" below)         *)
(*   src/JSON-converter-dual-language.py   (called "dual")                 *)
(*   src/unnamed/part_000                  (called "p0", the JC4 script)   *)
(*                                                                         *)
(* A text is a sequence of characters; a character is a one-character      *)
(* string ("a", "#", "\n", ...).  The two-letter strings "fa" and "fz"     *)
(* stand for the single characters U+0600 and U+06FF, "lo" and "hi" for    *)
(* U+05FF and U+0700 (see CodePoint), "bq" for the backquote.  The regular expressions of the      *)
(* scripts are modelled by MatchAt (one case per pattern) and ReSub        *)
(* (Python's re.sub: leftmost match first, then on from the match's end).  *)
(***************************************************************************)
EXTENDS Integers, Sequences, FiniteSets, TLC

VARIABLES
    script,     \* which of the three scripts runs
    ext,        \* the extension of input_filename: "json", "md" or another
    pc,         \* position of the run in the script
    entries,    \* data["entries"] of the input file: <<creationDate, text>> pairs
    notes,      \* the notes list built by the loader
    use_lettrine, \* the configured USE_LETTRINE_IN_LATEX (dual script)
    out,        \* what each emitter has written so far
    text,       \* the content of a .md input file; rewriter specification: the input text
    fn,         \* rewriter specification: the function applied ("none" before)
    res         \* rewriter specification: its result

vars == <<script, ext, pc, entries, notes, use_lettrine, out, text, fn, res>>

---------------------------------------------------------------------------
(* Characters and strings                                                  *)

NL == "\n"
TAB == "\t"
BS == "\\"
\* the backquote character (a string of the module cannot hold it)
BQ == "bq"

\* str.strip() and \s : the whitespace characters of the modelled alphabet
IsSpace(c) == c \in {" ", TAB, NL}

Min(S) == CHOOSE x \in S : \A y \in S : x <= y
Max(S) == CHOOSE x \in S : \A y \in S : x >= y

\* s[a..b] as Python's s[a-1:b] (empty when b < a)
Slice(s, a, b) == IF b < a THEN <<>> ELSE SubSeq(s, a, b)

\* s.startswith(lit), at position i (1-based)
IsAt(s, i, lit) ==
    /\ i >= 1
    /\ i + Len(lit) - 1 <= Len(s)
    /\ \A k \in 1..Len(lit) : s[i + k - 1] = lit[k]

StartsWith(s, lit) == IsAt(s, 1, lit)

\* no newline among s[a..b]: what '.' may match
NoNL(s, a, b) == \A k \in a..b : s[k] # NL

\* first position p >= from where lit occurs, 0 when there is none
FindLit(s, from, lit) ==
    LET cands == {p \in from..(Len(s) - Len(lit) + 1) : IsAt(s, p, lit)}
    IN IF cands = {} THEN 0 ELSE Min(cands)

\* str.strip()
Strip(s) ==
    LET keep == {k \in 1..Len(s) : ~IsSpace(s[k])}
    IN IF keep = {} THEN <<>> ELSE SubSeq(s, Min(keep), Max(keep))

RECURSIVE SplitFrom(_, _, _)
SplitFrom(s, sep, i) ==
    LET p == FindLit(s, i, sep)
    IN IF p = 0 THEN <<Slice(s, i, Len(s))>>
       ELSE <<Slice(s, i, p - 1)>> \o SplitFrom(s, sep, p + Len(sep))

\* str.split(sep): always at least one piece
Split(s, sep) == SplitFrom(s, sep, 1)

RECURSIVE Join(_, _)
\* sep.join(parts)
Join(parts, sep) ==
    IF parts = <<>> THEN <<>>
    ELSE IF Len(parts) = 1 THEN parts[1]
    ELSE parts[1] \o sep \o Join(Tail(parts), sep)

\* the start of a line: what '^' matches under re.MULTILINE
LineStart(s, i) == i = 1 \/ (i > 1 /\ i <= Len(s) + 1 /\ s[i - 1] = NL)

\* the last position of the line that position i lies on (i - 1 for an empty rest)
LineEnd(s, i) ==
    LET nls == {k \in i..Len(s) : s[k] = NL}
    IN IF nls = {} THEN Len(s) ELSE Min(nls) - 1

---------------------------------------------------------------------------
(* Regular expressions.  A match is [end, g1, g2]: the last position it    *)
(* covers and its groups; end = 0 is "no match at this position".          *)

NoMatch == [end |-> 0, g1 |-> <<>>, g2 |-> <<>>]

\* the match that opens before c and closes at p (p = 0: no closing delimiter),
\* n the length of the closing delimiter; '.' takes no newline
Group(s, c, p, n) ==
    IF p = 0 \/ ~NoNL(s, c, p - 1) THEN NoMatch
    ELSE [end |-> p + n - 1, g1 |-> Slice(s, c, p - 1), g2 |-> <<>>]

\* open (.+?) close : the lazy group is at least one character, none a newline
Delim(s, i, open, close) ==
    IF ~IsAt(s, i, open) THEN NoMatch
    ELSE Group(s, i + Len(open), FindLit(s, i + Len(open) + 1, close), Len(close))

\* open .*? close : as Delim, the lazy part may be empty (add_markdown_to_docx)
DelimStar(s, i, open, close) ==
    IF ~IsAt(s, i, open) THEN NoMatch
    ELSE Group(s, i + Len(open), FindLit(s, i + Len(open), close), Len(close))

\* the match of Lone that closes at p, the next m after position i
LoneTo(s, i, p, m) ==
    IF p = 0 \/ p = i + 1 \/ (p < Len(s) /\ s[p + 1] = m) THEN NoMatch
    ELSE [end |-> p, g1 |-> Slice(s, i + 1, p - 1), g2 |-> <<>>]

\* (?<!m)m([^m]+?)m(?!m) : the group may hold newlines, never the marker m
Lone(s, i, m) ==
    IF ~(i <= Len(s) /\ s[i] = m) \/ (i > 1 /\ s[i - 1] = m) THEN NoMatch
    ELSE LoneTo(s, i, FindLit(s, i + 1, <<m>>), m)

\* (?<!m)m(?!m)[^m]*?m(?!m) of add_markdown_to_docx: the same matches as Lone
\* (an empty group would need the opening m to be followed by m)
LoneStar(s, i, m) == Lone(s, i, m)

\* the match of Tick that closes at p
TickTo(s, i, p) ==
    IF p = 0 THEN NoMatch ELSE [end |-> p, g1 |-> Slice(s, i + 1, p - 1), g2 |-> <<>>]

\* BQ[^BQ]*?BQ of add_markdown_to_docx: the group may be empty and may hold newlines
Tick(s, i) ==
    IF ~(i <= Len(s) /\ s[i] = BQ) THEN NoMatch ELSE TickTo(s, i, FindLit(s, i + 1, <<BQ>>))

\* the run of '#' at position i
HashRun(s, i) ==
    LET stop == {k \in i..Len(s) : s[k] # "#"}
    IN (IF stop = {} THEN Len(s) + 1 ELSE Min(stop)) - i

\* the heading match at a line start i with h marks, e the end of the line
HeadingTo(s, i, lo, hi, h, e) ==
    IF LineStart(s, i) /\ h >= lo /\ h <= hi /\ IsAt(s, i + h, <<" ">>) /\ e >= i + h + 1
    THEN [end |-> e, g1 |-> Slice(s, i + h + 1, e), g2 |-> <<>>]
    ELSE NoMatch

\* ^#{lo,hi} (.+)$ under re.MULTILINE: the marker, ONE space, the rest of the line
Heading(s, i, lo, hi) ==
    HeadingTo(s, i, lo, hi, IF i <= Len(s) THEN HashRun(s, i) ELSE 0, LineEnd(s, i))

\* the run of whitespace (\s) at position i
SpaceRun(s, i) ==
    LET stop == {k \in i..Len(s) : ~IsSpace(s[k])}
    IN (IF stop = {} THEN Len(s) + 1 ELSE Min(stop)) - i

\* the group (.+)$ from position g on
RestOfLine(s, g) == [end |-> LineEnd(s, g), g1 |-> Slice(s, g, LineEnd(s, g)), g2 |-> <<>>]

\* the match after h marks at i; ok holds the lengths \s+ may take: the next
\* character is one of a line
HeadingSTo(s, i, h, ok) ==
    IF LineStart(s, i) /\ h >= 1 /\ h <= 6 /\ ok # {} THEN RestOfLine(s, i + h + Max(ok))
    ELSE NoMatch

\* the lengths m of a whitespace run at position a that leave a character of a
\* line behind them
SpaceTakes(s, a) == {m \in 1..SpaceRun(s, a) : a + m <= Len(s) /\ s[a + m] # NL}

\* the heading match of HeadingS with h marks at i
HeadingSFrom(s, i, h) == HeadingSTo(s, i, h, SpaceTakes(s, i + h))

\* ^#{1,6}\s+(.+)$ under re.MULTILINE.  \s+ is greedy and also takes newlines
\* and tabs; it gives characters back until (.+) finds a character of a line.
HeadingS(s, i) == HeadingSFrom(s, i, IF i <= Len(s) THEN HashRun(s, i) ELSE 0)

\* the link match with "](" at j and ")" at k
LinkTo(s, i, j, k) ==
    IF k = 0 \/ ~NoNL(s, i + 1, k - 1) THEN NoMatch
    ELSE [end |-> k, g1 |-> Slice(s, i + 1, j - 1), g2 |-> Slice(s, j + 2, k - 1)]

LinkFrom(s, i, j) == IF j = 0 THEN NoMatch ELSE LinkTo(s, i, j, FindLit(s, j + 3, <<")">>))

\* \[(.+?)\]\((.+?)\)
Link(s, i) ==
    IF ~IsAt(s, i, <<"[">>) THEN NoMatch ELSE LinkFrom(s, i, FindLit(s, i + 2, <<"]", "(">>))

\* the fence match whose first line ends at n and whose closing line starts after q
FenceTo(s, n, q) ==
    IF q = 0 THEN NoMatch ELSE [end |-> q + 3, g1 |-> Slice(s, n + 1, q - 1), g2 |-> <<>>]

FenceFrom(s, n) == IF n = 0 THEN NoMatch ELSE FenceTo(s, n, FindLit(s, n + 1, <<NL, BQ, BQ, BQ>>))

\* BQ BQ BQ .*? \n (.*?) \n BQ BQ BQ under re.DOTALL
Fence(s, i) ==
    IF ~IsAt(s, i, <<BQ, BQ, BQ>>) THEN NoMatch ELSE FenceFrom(s, FindLit(s, i + 3, <<NL>>))

\* a|b : the first alternative that matches at this position
Alt(a, b) == IF a.end # 0 THEN a ELSE b

\* the patterns of the scripts, by name
MatchAt(pat, s, i) ==
    CASE pat = "headingS"  -> HeadingS(s, i)
      [] pat = "h1"        -> Heading(s, i, 1, 1)
      [] pat = "h2"        -> Heading(s, i, 2, 2)
      [] pat = "h3"        -> Heading(s, i, 3, 3)
      [] pat = "h4"        -> Heading(s, i, 4, 4)
      [] pat = "h5"        -> Heading(s, i, 5, 5)
      [] pat = "h6"        -> Heading(s, i, 6, 6)
      [] pat = "h46"       -> Heading(s, i, 4, 6)
      [] pat = "bold"      -> Alt(Delim(s, i, <<"*", "*">>, <<"*", "*">>),
                                  Delim(s, i, <<"_", "_">>, <<"_", "_">>))
      [] pat = "boldStar"  -> Delim(s, i, <<"*", "*">>, <<"*", "*">>)
      [] pat = "boldUs"    -> Delim(s, i, <<"_", "_">>, <<"_", "_">>)
      [] pat = "anyItalic" -> Alt(Delim(s, i, <<"*">>, <<"*">>), Delim(s, i, <<"_">>, <<"_">>))
      [] pat = "anyStar"   -> Delim(s, i, <<"*">>, <<"*">>)
      [] pat = "anyUs"     -> Delim(s, i, <<"_">>, <<"_">>)
      [] pat = "italic"    -> Alt(Lone(s, i, "*"), Lone(s, i, "_"))
      [] pat = "italicStar" -> Lone(s, i, "*")
      [] pat = "italicUs"  -> Lone(s, i, "_")
      [] pat = "link"      -> Link(s, i)
      [] pat = "code"      -> Delim(s, i, <<BQ>>, <<BQ>>)
      [] pat = "fence"     -> Fence(s, i)

\* one re.sub call: the pattern and the replacement template pre \1 post;
\* the one group of an alternation a|b that took part is \1 (templates \1\2)
Rule(pat, pre, post) == [pat |-> pat, groups |-> 1, pre |-> pre, mid |-> <<>>, post |-> post]

\* one re.sub call with the template pre \2 mid \1 post: the link templates
Rule2(pat, pre, mid, post) == [pat |-> pat, groups |-> 2, pre |-> pre, mid |-> mid, post |-> post]

\* the replacement of the match m
Expand(rule, m) ==
    rule.pre \o (IF rule.groups = 2 THEN m.g2 \o rule.mid ELSE <<>>) \o m.g1 \o rule.post

\* the matches of the pattern at the positions from i on
MatchesFrom(rule, s, i) ==
    {x \in {[at |-> p, m |-> MatchAt(rule.pat, s, p)] : p \in i..Len(s)} : x.m.end # 0}

RECURSIVE SubFrom(_, _, _)
\* the step of re.sub from position i, found the matches from there on: the
\* leftmost one is replaced, the text before it is copied
SubStep(rule, s, i, found) ==
    IF found = {} THEN Slice(s, i, Len(s))
    ELSE LET x == CHOOSE y \in found : \A z \in found : y.at <= z.at
         IN Slice(s, i, x.at - 1) \o Expand(rule, x.m) \o SubFrom(rule, s, x.m.end + 1)

SubFrom(rule, s, i) ==
    IF i > Len(s) THEN <<>> ELSE SubStep(rule, s, i, MatchesFrom(rule, s, i))

\* re.sub(pattern, template, s)
ReSub(rule, s) == SubFrom(rule, s, 1)

RECURSIVE ApplyRules(_, _)
\* text = re.sub(...) line after line
ApplyRules(rules, t) ==
    IF rules = <<>> THEN t ELSE ApplyRules(Tail(rules), ReSub(Head(rules), t))

\* str.replace(old, new)
Replace(s, old, new) == Join(Split(s, old), new)

RECURSIVE MapChars(_, _)
\* "".join(f(c) for c in s), f given as a function on the characters of s
MapChars(f, s) == IF s = <<>> THEN <<>> ELSE f[Head(s)] \o MapChars(f, Tail(s))

---------------------------------------------------------------------------
(* The strings the rewriters emit                                          *)

L_section == <<BS, "s", "e", "c", "t", "i", "o", "n", "{">>
L_subsection == <<BS, "s", "u", "b", "s", "e", "c", "t", "i", "o", "n", "{">>
L_subsubsection == <<BS, "s", "u", "b", "s", "u", "b", "s", "e", "c", "t", "i", "o", "n", "{">>
L_paragraph == <<BS, "p", "a", "r", "a", "g", "r", "a", "p", "h", "{">>
L_textbf == <<BS, "t", "e", "x", "t", "b", "f", "{">>
L_textit == <<BS, "t", "e", "x", "t", "i", "t", "{">>
L_texttt == <<BS, "t", "e", "x", "t", "t", "t", "{">>
L_href == <<BS, "h", "r", "e", "f", "{">>
L_close == <<"}">>
L_mid == <<"}", "{">>
L_begin_verbatim == <<BS, "b", "e", "g", "i", "n", "{", "v", "e", "r", "b", "a", "t", "i", "m", "}">>
L_end_verbatim == <<BS, "e", "n", "d", "{", "v", "e", "r", "b", "a", "t", "i", "m", "}">>
L_circum == <<BS, "t", "e", "x", "t", "a", "s", "c", "i", "i", "c", "i", "r", "c", "u", "m", "{", "}">>
L_tilde == <<BS, "t", "e", "x", "t", "a", "s", "c", "i", "i", "t", "i", "l", "d", "e", "{", "}">>
L_begin_enumerate == <<BS, "b", "e", "g", "i", "n", "{", "e", "n", "u", "m", "e", "r", "a", "t", "e", "}">>
L_end_enumerate == <<BS, "e", "n", "d", "{", "e", "n", "u", "m", "e", "r", "a", "t", "e", "}">>
L_begin_itemize == <<BS, "b", "e", "g", "i", "n", "{", "i", "t", "e", "m", "i", "z", "e", "}">>
L_end_itemize == <<BS, "e", "n", "d", "{", "i", "t", "e", "m", "i", "z", "e", "}">>
L_item == <<" ", " ", BS, "i", "t", "e", "m", " ">>

H_strong == <<"<", "s", "t", "r", "o", "n", "g", ">">>
H_strong_end == <<"<", "/", "s", "t", "r", "o", "n", "g", ">">>
H_em == <<"<", "e", "m", ">">>
H_em_end == <<"<", "/", "e", "m", ">">>
H_code == <<"<", "c", "o", "d", "e", ">">>
H_code_end == <<"<", "/", "c", "o", "d", "e", ">">>
H_pre == <<"<", "p", "r", "e", ">", "<", "c", "o", "d", "e", ">">>
H_pre_end == <<"<", "/", "c", "o", "d", "e", ">", "<", "/", "p", "r", "e", ">">>
H_a == <<"<", "a", " ", "h", "r", "e", "f", "=", "\"">>
H_a_mid == <<"\"", ">">>
H_a_end == <<"<", "/", "a", ">">>
H_p == <<"<", "p", ">">>
H_p_end == <<"<", "/", "p", ">">>
H_br == <<"<", "b", "r", ">">>
LevelDigit == <<"1", "2", "3", "4", "5", "6">>
H_h(n) == <<"<", "h", LevelDigit[n], ">">>
H_h_end(n) == <<"<", "/", "h", LevelDigit[n], ">">>

---------------------------------------------------------------------------
(* markdown_to_plain_text                                                  *)

\* the substitutions of markdown_to_plain_text in their order
plain_text_rules ==
    << Rule("headingS", <<>>, <<>>),
       Rule("bold", <<>>, <<>>),
       Rule("anyItalic", <<>>, <<>>),
       Rule("link", <<>>, <<>>),
       Rule("code", <<>>, <<>>),
       Rule("fence", <<>>, <<>>) >>

markdown_to_plain_text(t) == ApplyRules(plain_text_rules, t)

\* part_000: bold and italic have a substitution each for '*' and for '_'
plain_text_rules_p0 ==
    << Rule("headingS", <<>>, <<>>),
       Rule("boldStar", <<>>, <<>>),
       Rule("anyStar", <<>>, <<>>),
       Rule("boldUs", <<>>, <<>>),
       Rule("anyUs", <<>>, <<>>),
       Rule("link", <<>>, <<>>),
       Rule("code", <<>>, <<>>),
       Rule("fence", <<>>, <<>>) >>

markdown_to_plain_text_p0(t) == ApplyRules(plain_text_rules_p0, t)

---------------------------------------------------------------------------
(* markdown_to_latex                                                       *)

\* the substitutions of markdown_to_latex, the same in JSON-converter.py and
\* in the dual-language script
latex_rules ==
    << Rule("h1", L_section, L_close),
       Rule("h2", L_subsection, L_close),
       Rule("h3", L_subsubsection, L_close),
       Rule("bold", L_textbf, L_close),
       Rule("italic", L_textit, L_close),
       Rule("code", L_texttt, L_close),
       Rule("fence", L_begin_verbatim \o <<NL>>, <<NL>> \o L_end_verbatim),
       Rule2("link", L_href, L_mid, L_close) >>

LatexInline(t0) == ApplyRules(latex_rules, t0)

\* the replacement of one character in the escaping loops
EscapeChar(c) ==
    IF c \in {"&", "_", "#", "%", "$"} THEN <<BS, c>>
    ELSE IF c = "^" THEN L_circum
    ELSE IF c = "~" THEN L_tilde
    ELSE <<c>>

EscapeAll(line) == MapChars([c \in {line[k] : k \in 1..Len(line)} |-> EscapeChar(c)], line)

RECURSIVE MapLines(_, _)
MapLines(f, ls) == IF ls = <<>> THEN <<>> ELSE <<f[Head(ls)]>> \o MapLines(f, Tail(ls))

\* JSON-converter.py: a line that starts with a backslash is left as it is
EscapeLine(line) == IF StartsWith(Strip(line), <<BS>>) THEN line ELSE EscapeAll(line)

\* the escaping loop over the lines
EscapeLines(ls) == MapLines([l \in {ls[k] : k \in 1..Len(ls)} |-> EscapeLine(l)], ls)

markdown_to_latex(t0) == Join(EscapeLines(Split(LatexInline(t0), <<NL>>)), <<NL>>)

IsDigit(c) == c \in {"0", "1", "2", "3", "4", "5", "6", "7", "8", "9"}

\* str.isalpha() on the modelled alphabet; "fz" is U+06FF, a letter (U+0600 is not)
IsAlpha(c) ==
    c \in {"a", "b", "c", "d", "e", "f", "g", "h", "i", "j", "k", "l", "m",
           "n", "o", "p", "q", "r", "s", "t", "u", "v", "w", "x", "y", "z",
           "A", "B", "C", "D", "E", "F", "G", "H", "I", "J", "K", "L", "M",
           "N", "O", "P", "Q", "R", "S", "T", "U", "V", "W", "X", "Y", "Z", "fz"}

DigitRun(s, i) ==
    LET stop == {k \in i..Len(s) : ~IsDigit(s[k])}
    IN (IF stop = {} THEN Len(s) + 1 ELSE Min(stop)) - i

\* re.match(r'^\s*(\d+)\.\s+(.*)', line): group 2, or "no match"
numbered_match(line) ==
    LET a == 1 + SpaceRun(line, 1)
        d == DigitRun(line, a)
        w == SpaceRun(line, a + d + 1)
    IN IF d >= 1 /\ IsAt(line, a + d, <<".">>) /\ w >= 1
       THEN [ok |-> TRUE, g2 |-> Slice(line, a + d + 1 + w, Len(line))]
       ELSE [ok |-> FALSE, g2 |-> <<>>]

\* re.match(r'^\s*([*+-])\s+(.*)', line): group 2, or "no match"
bullet_match(line) ==
    LET a == 1 + SpaceRun(line, 1)
        w == SpaceRun(line, a + 1)
    IN IF a <= Len(line) /\ line[a] \in {"*", "+", "-"} /\ w >= 1
       THEN [ok |-> TRUE, g2 |-> Slice(line, a + 1 + w, Len(line))]
       ELSE [ok |-> FALSE, g2 |-> <<>>]

RECURSIVE ListLines(_, _, _)
\* the list loop of the dual-language markdown_to_latex and the closing of open lists
ListLines(ls, in_itemize, in_enumerate) ==
    IF ls = <<>>
    THEN (IF in_itemize THEN <<L_end_itemize>> ELSE <<>>)
         \o (IF in_enumerate THEN <<L_end_enumerate>> ELSE <<>>)
    ELSE LET line == Head(ls)
             nm == numbered_match(line)
             bm == bullet_match(line)
         IN IF nm.ok
            THEN (IF ~in_enumerate THEN <<L_begin_enumerate>> ELSE <<>>)
                 \o <<L_item \o nm.g2>> \o ListLines(Tail(ls), in_itemize, TRUE)
            ELSE (IF in_enumerate THEN <<L_end_enumerate>> ELSE <<>>)
                 \o (IF bm.ok
                     THEN (IF ~in_itemize THEN <<L_begin_itemize>> ELSE <<>>)
                          \o <<L_item \o bm.g2>> \o ListLines(Tail(ls), TRUE, FALSE)
                     ELSE (IF in_itemize THEN <<L_end_itemize>> ELSE <<>>)
                          \o <<line>> \o ListLines(Tail(ls), FALSE, FALSE))

\* the dual-language script: every line but a \begin{verbatim} line is escaped
EscapeLine_dual(line) ==
    IF StartsWith(Strip(line), L_begin_verbatim) THEN line ELSE EscapeAll(line)

EscapeLines_dual(ls) == MapLines([l \in {ls[k] : k \in 1..Len(ls)} |-> EscapeLine_dual(l)], ls)

\* the text after the list loop
LatexLists(t0) == Join(ListLines(Split(LatexInline(t0), <<NL>>), FALSE, FALSE), <<NL>>)

markdown_to_latex_dual(t0, use_persian_mode) ==
    IF use_persian_mode THEN LatexLists(t0)
    ELSE Join(EscapeLines_dual(Split(LatexLists(t0), <<NL>>)), <<NL>>)

RECURSIVE CommandEnd(_, _)
\* part_000: the inner while loop, j a 0-based index as in the source
CommandEnd(line, j) ==
    IF j < Len(line) /\ (IsAlpha(line[j + 1]) \/ line[j + 1] \in {"{", "}"})
    THEN IF j + 1 < Len(line) /\ line[j + 1] = "}" THEN j + 1 ELSE CommandEnd(line, j + 1)
    ELSE j

RECURSIVE EscapeFrom_p0(_, _)
\* part_000: the outer while loop, i a 0-based index as in the source
EscapeFrom_p0(line, i) ==
    IF i >= Len(line) THEN <<>>
    ELSE IF line[i + 1] = BS /\ i < Len(line) - 1
         THEN Slice(line, i + 1, CommandEnd(line, i + 1)) \o EscapeFrom_p0(line, CommandEnd(line, i + 1))
         ELSE EscapeChar(line[i + 1]) \o EscapeFrom_p0(line, i + 1)

EscapeLine_p0(line) ==
    IF StartsWith(Strip(line), <<BS>>) THEN line ELSE EscapeFrom_p0(line, 0)

EscapeLines_p0(ls) == MapLines([l \in {ls[k] : k \in 1..Len(ls)} |-> EscapeLine_p0(l)], ls)

latex_rules_p0 ==
    << Rule("h1", L_section, L_close),
       Rule("h2", L_subsection, L_close),
       Rule("h3", L_subsubsection, L_close),
       Rule("h46", L_paragraph, L_close),
       Rule("boldStar", L_textbf, L_close),
       Rule("boldUs", L_textbf, L_close),
       Rule("italicStar", L_textit, L_close),
       Rule("italicUs", L_textit, L_close),
       Rule("code", L_texttt, L_close),
       Rule("fence", L_begin_verbatim \o <<NL>>, <<NL>> \o L_end_verbatim),
       Rule2("link", L_href, L_mid, L_close) >>

markdown_to_latex_p0(t0) ==
    Join(EscapeLines_p0(Split(ApplyRules(latex_rules_p0, t0), <<NL>>)), <<NL>>)

---------------------------------------------------------------------------
(* markdown_to_html                                                        *)

\* the substitutions of markdown_to_html, the same in JSON-converter.py and in
\* the dual-language script
html_rules ==
    << Rule("h1", H_h(1), H_h_end(1)),
       Rule("h2", H_h(2), H_h_end(2)),
       Rule("h3", H_h(3), H_h_end(3)),
       Rule("h4", H_h(4), H_h_end(4)),
       Rule("h5", H_h(5), H_h_end(5)),
       Rule("h6", H_h(6), H_h_end(6)),
       Rule("fence", H_pre, H_pre_end),
       Rule("bold", H_strong, H_strong_end),
       Rule("italic", H_em, H_em_end),
       Rule("code", H_code, H_code_end),
       Rule2("link", H_a, H_a_mid, H_a_end) >>

HtmlInline(t0) == ApplyRules(html_rules, t0)

\* any(paragraph.strip().startswith(tag) for tag in ['<h', '<pre'])
IsBlock(paragraph) ==
    StartsWith(Strip(paragraph), <<"<", "h">>) \/ StartsWith(Strip(paragraph), <<"<", "p", "r", "e">>)

RECURSIVE Paragraphs(_, _)
\* the paragraph loop: br is what a single newline becomes inside <p>
Paragraphs(ps, br) ==
    IF ps = <<>> THEN <<>>
    ELSE LET p == Head(ps)
         IN (IF Strip(p) = <<>> THEN <<>>
             ELSE IF IsBlock(p) THEN <<p>>
             ELSE <<H_p \o Replace(p, <<NL>>, br) \o H_p_end>>)
            \o Paragraphs(Tail(ps), br)

markdown_to_html(t0) ==
    Join(Paragraphs(Split(HtmlInline(t0), <<NL, NL>>), H_br \o <<NL>>), <<NL>>)

markdown_to_html_dual(t0) ==
    Join(Paragraphs(Split(HtmlInline(t0), <<NL, NL>>), H_br), <<NL>>)

html_rules_p0 ==
    << Rule("h1", H_h(1), H_h_end(1)),
       Rule("h2", H_h(2), H_h_end(2)),
       Rule("h3", H_h(3), H_h_end(3)),
       Rule("h4", H_h(4), H_h_end(4)),
       Rule("h5", H_h(5), H_h_end(5)),
       Rule("h6", H_h(6), H_h_end(6)),
       Rule("boldStar", H_strong, H_strong_end),
       Rule("boldUs", H_strong, H_strong_end),
       Rule("anyStar", H_em, H_em_end),
       Rule("anyUs", H_em, H_em_end),
       Rule("code", H_code, H_code_end),
       Rule("fence", H_pre, H_pre_end),
       Rule2("link", H_a, H_a_mid, H_a_end) >>

\* part_000: the substitutions, then the two newline replacements and the <p> wrap
markdown_to_html_p0(t0) ==
    H_p \o Replace(Replace(ApplyRules(html_rules_p0, t0), <<NL, NL>>, H_p_end \o H_p), <<NL>>, H_br)
        \o H_p_end

---------------------------------------------------------------------------
(* add_markdown_to_docx: the document is the sequence of added paragraphs, *)
(* a heading [kind, level, text] or a paragraph [kind, runs] of runs       *)
(* [text, style], style one of bold, italic, code, plain.                  *)

\* one match of the pattern given to re.split, the alternatives in their order
DocxMatch(s, i) ==
    Alt(DelimStar(s, i, <<"*", "*">>, <<"*", "*">>),
    Alt(DelimStar(s, i, <<"_", "_">>, <<"_", "_">>),
    Alt(LoneStar(s, i, "*"),
    Alt(LoneStar(s, i, "_"), Tick(s, i)))))

RECURSIVE ReSplitFrom(_, _, _)
\* the step of re.split at position i, m the match there
ReSplitStep(s, i, from, m) ==
    IF m.end = 0 THEN ReSplitFrom(s, i + 1, from)
    ELSE <<Slice(s, from, i - 1), Slice(s, i, m.end)>> \o ReSplitFrom(s, m.end + 1, m.end + 1)

\* re.split with the whole pattern captured: text, match, text, ..., text
ReSplitFrom(s, i, from) ==
    IF i > Len(s) THEN <<Slice(s, from, Len(s))>> ELSE ReSplitStep(s, i, from, DocxMatch(s, i))

EndsWith(s, lit) == Len(s) >= Len(lit) /\ IsAt(s, Len(s) - Len(lit) + 1, lit)

\* part[a:-b]
Inner(part, a, b) == Slice(part, a + 1, Len(part) - b)

\* DocxRun with the tests for one marker character before those for two
DocxRun_italic_first(part) ==
    IF (StartsWith(part, <<"*">>) /\ EndsWith(part, <<"*">>))
       \/ (StartsWith(part, <<"_">>) /\ EndsWith(part, <<"_">>))
    THEN [text |-> Inner(part, 1, 1), style |-> "italic"]
    ELSE IF (StartsWith(part, <<"*", "*">>) /\ EndsWith(part, <<"*", "*">>))
            \/ (StartsWith(part, <<"_", "_">>) /\ EndsWith(part, <<"_", "_">>))
    THEN [text |-> Inner(part, 2, 2), style |-> "bold"]
    ELSE IF StartsWith(part, <<BQ>>) /\ EndsWith(part, <<BQ>>)
    THEN [text |-> Inner(part, 1, 1), style |-> "code"]
    ELSE [text |-> part, style |-> "plain"]

\* the run add_run makes of one part (JSON-converter.py and the dual-language script)
DocxRun(part) ==
    IF (StartsWith(part, <<"*", "*">>) /\ EndsWith(part, <<"*", "*">>))
       \/ (StartsWith(part, <<"_", "_">>) /\ EndsWith(part, <<"_", "_">>))
    THEN [text |-> Inner(part, 2, 2), style |-> "bold"]
    ELSE IF (StartsWith(part, <<"*">>) /\ EndsWith(part, <<"*">>))
            \/ (StartsWith(part, <<"_">>) /\ EndsWith(part, <<"_">>))
    THEN [text |-> Inner(part, 1, 1), style |-> "italic"]
    ELSE IF StartsWith(part, <<BQ>>) /\ EndsWith(part, <<BQ>>)
    THEN [text |-> Inner(part, 1, 1), style |-> "code"]
    ELSE [text |-> part, style |-> "plain"]

\* the run add_run makes of one part (part_000)
DocxRun_p0(part) ==
    IF StartsWith(part, <<"*", "*">>) /\ EndsWith(part, <<"*", "*">>)
    THEN [text |-> Inner(part, 2, 2), style |-> "bold"]
    ELSE IF StartsWith(part, <<"_", "_">>) /\ EndsWith(part, <<"_", "_">>)
    THEN [text |-> Inner(part, 2, 2), style |-> "bold"]
    ELSE IF StartsWith(part, <<"*">>) /\ EndsWith(part, <<"*">>) /\ ~StartsWith(part, <<"*", "*">>)
    THEN [text |-> Inner(part, 1, 1), style |-> "italic"]
    ELSE IF StartsWith(part, <<"_">>) /\ EndsWith(part, <<"_">>) /\ ~StartsWith(part, <<"_", "_">>)
    THEN [text |-> Inner(part, 1, 1), style |-> "italic"]
    ELSE IF StartsWith(part, <<BQ>>) /\ EndsWith(part, <<BQ>>)
    THEN [text |-> Inner(part, 1, 1), style |-> "code"]
    ELSE [text |-> part, style |-> "plain"]

RECURSIVE DocxRuns(_, _)
DocxRuns(parts, p0) ==
    IF parts = <<>> THEN <<>>
    ELSE <<IF p0 THEN DocxRun_p0(Head(parts)) ELSE DocxRun(Head(parts))>> \o DocxRuns(Tail(parts), p0)

\* the level of the heading a stripped line is, 0 when it is none: levels 1 to
\* maxLevel are tested in order with line.startswith('#' * n + ' ')
DocxLevel(line, maxLevel) ==
    LET ls == {n \in 1..maxLevel : StartsWith(line, [k \in 1..n |-> "#"] \o <<" ">>)}
    IN IF ls = {} THEN 0 ELSE Min(ls)

RECURSIVE DocxLines(_, _, _)
DocxLines(ls, maxLevel, p0) ==
    IF ls = <<>> THEN <<>>
    ELSE LET line == Strip(Head(ls))
             n == DocxLevel(line, maxLevel)
         IN (IF line = <<>> THEN <<>>
             ELSE IF n > 0
             THEN <<[kind |-> "heading", level |-> n, text |-> Slice(line, n + 2, Len(line))]>>
             ELSE <<[kind |-> "para", runs |-> DocxRuns(ReSplitFrom(line, 1, 1), p0)]>>)
            \o DocxLines(Tail(ls), maxLevel, p0)

DocxMaxLevel == 3
DocxMaxLevel_p0 == 6

add_markdown_to_docx(t) == DocxLines(Split(t, <<NL>>), DocxMaxLevel, FALSE)

add_markdown_to_docx_p0(t) == DocxLines(Split(t, <<NL>>), DocxMaxLevel_p0, TRUE)

---------------------------------------------------------------------------
(* split_content_by_h1: a section is [title, has_title, content]; has_title *)
(* is FALSE for the title None.                                            *)

H1Mark == <<"#", " ">>

RECURSIVE SectionsFrom(_, _, _, _)
\* the loop over the lines and the "last section" test after it
SectionsFrom(ls, current_section, current_h1, has_h1) ==
    LET flush == IF has_h1
                 THEN <<[title |-> current_h1, has_title |-> TRUE,
                         content |-> Join(current_section, <<NL>>)]>>
                 ELSE <<>>
    IN IF ls = <<>> THEN flush
       ELSE LET line == Head(ls)
            IN IF StartsWith(line, H1Mark)
               THEN flush \o SectionsFrom(Tail(ls), <<line>>, Strip(Slice(line, 3, Len(line))), TRUE)
               ELSE SectionsFrom(Tail(ls), Append(current_section, line), current_h1, has_h1)

\* split_content_by_h1 without the statement after the loop: the section that
\* is open when the lines end is never appended
split_content_by_h1_open_end(t) ==
    SubSeq(SectionsFrom(Split(t, <<NL>>), <<>>, <<>>, FALSE), 1,
           Len(SectionsFrom(Split(t, <<NL>>), <<>>, <<>>, FALSE)) - 1)

split_content_by_h1(t) == SectionsFrom(Split(t, <<NL>>), <<>>, <<>>, FALSE)

split_content_by_h1_dual(t) ==
    LET sections == split_content_by_h1(t)
    IN IF sections = <<>> THEN <<[title |-> <<>>, has_title |-> FALSE, content |-> t]>>
       ELSE sections

---------------------------------------------------------------------------
(* is_persian                                                              *)

PersianLo == 1536
PersianHi == 1791

\* ord(c): "lo" is U+05FF, "fa" U+0600, "fz" U+06FF, "hi" U+0700; the digits and
\* the punctuation of a creationDate have their ASCII codes; every other
\* character of the modelled alphabet is ASCII too (below 128)
CodePoint(c) ==
    CASE c = "lo" -> 1535
      [] c = "fa" -> 1536
      [] c = "fz" -> 1791
      [] c = "hi" -> 1792
      [] c = "-" -> 45
      [] c = "0" -> 48
      [] c = "1" -> 49
      [] c = "2" -> 50
      [] c = "3" -> 51
      [] c = "4" -> 52
      [] c = "5" -> 53
      [] c = "6" -> 54
      [] c = "7" -> 55
      [] c = "8" -> 56
      [] c = "9" -> 57
      [] c = ":" -> 58
      [] c = "T" -> 84
      [] c = "Z" -> 90
      [] OTHER -> 97

\* is_persian with the two ends of the range left out
is_persian_open_range(t) ==
    \E k \in 1..Len(t) : PersianLo < CodePoint(t[k]) /\ CodePoint(t[k]) < PersianHi

is_persian(t) == \E k \in 1..Len(t) : PersianLo <= CodePoint(t[k]) /\ CodePoint(t[k]) <= PersianHi

---------------------------------------------------------------------------
(* apply_lettrine_to_content                                               *)

L_lettrine == <<BS, "l", "e", "t", "t", "r", "i", "n", "e", "[", "l", "i", "n", "e", "s", "=", "2", ",", " ", "l", "h", "a", "n", "g", "=", "0", ".", "3", "3", ",", " ", "l", "o", "v", "e", "r", "s", "i", "z", "e", "=", "0", ".", "3", "]", "{">>

\* [a-zA-Z0-9]
IsAsciiAlnum(c) == (IsAlpha(c) /\ c # "fz") \/ IsDigit(c)

\* \w : letters, digits and the underscore
IsWord(c) == IsAlpha(c) \/ IsDigit(c) \/ c = "_"

\* the first word of a stripped, non-empty line and the rest: str.split(None, 1)
FirstWord(stripped) ==
    LET sp == {k \in 1..Len(stripped) : IsSpace(stripped[k])}
        e == IF sp = {} THEN Len(stripped) ELSE Min(sp) - 1
        r == e + 1 + SpaceRun(stripped, e + 1)
    IN [word |-> Slice(stripped, 1, e), rest |-> Slice(stripped, r, Len(stripped)),
        has_rest |-> sp # {}]

\* the line with the command in it: re.match(r'([a-zA-Z0-9]+)(\W*)', first word)
LettrineLine(line) ==
    LET fw == FirstWord(Strip(line))
        w == fw.word
        stop1 == {k \in 1..Len(w) : ~IsAsciiAlnum(w[k])}
        e1 == IF stop1 = {} THEN Len(w) ELSE Min(stop1) - 1
        stop2 == {k \in (e1 + 1)..Len(w) : IsWord(w[k])}
        e2 == IF stop2 = {} THEN Len(w) ELSE Min(stop2) - 1
        start_index == FindLit(line, 1, w)
    IN Strip(Slice(line, 1, start_index - 1) \o L_lettrine \o <<w[1]>> \o L_mid
             \o Slice(w, 2, e1) \o L_close \o Slice(w, e1 + 1, e2) \o <<" ">> \o fw.rest)

\* whether the loop stops at this line: not empty, no command, a first word that
\* starts with an ASCII letter or digit
LettrineTarget(line) ==
    LET st == Strip(line)
    IN st # <<>> /\ ~StartsWith(st, <<BS>>) /\ IsAsciiAlnum(st[1])

apply_lettrine_to_content(text_block) ==
    LET lines == Split(text_block, <<NL>>)
        hits == {i \in 1..Len(lines) : LettrineTarget(lines[i])}
    IN IF hits = {} THEN text_block
       ELSE Join([i \in 1..Len(lines) |-> IF i = Min(hits) THEN LettrineLine(lines[i]) ELSE lines[i]],
                 <<NL>>)

---------------------------------------------------------------------------
(* The run of a script                                                     *)

Scripts == {"single", "dual", "p0"}

\* a < b for two strings, as Python compares them
RECURSIVE StrLess(_, _)
StrLess(a, b) ==
    IF b = <<>> THEN FALSE
    ELSE IF a = <<>> THEN TRUE
    ELSE IF Head(a) = Head(b) THEN StrLess(Tail(a), Tail(b))
    ELSE CodePoint(Head(a)) < CodePoint(Head(b))

RECURSIVE InsertSorted(_, _)
\* e put behind every entry whose key is not greater: the order of equal keys is kept
InsertSorted(sorted, e) ==
    IF sorted = <<>> THEN <<e>>
    ELSE IF StrLess(e.creationDate, Head(sorted).creationDate) THEN <<e>> \o sorted
    ELSE <<Head(sorted)>> \o InsertSorted(Tail(sorted), e)

RECURSIVE SortEntries(_)
\* entries.sort(key=lambda x: x.get('creationDate', '')): a stable sort
SortEntries(es) ==
    IF es = <<>> THEN <<>>
    ELSE InsertSorted(SortEntries(SubSeq(es, 1, Len(es) - 1)), es[Len(es)])

\* strptime(creationDate, "%Y-%m-%dT%H:%M:%SZ").strftime("%Y-%m-%d")
FormatDate(creationDate) == SubSeq(creationDate, 1, 10)

\* the notes of the entries, in their order
MakeNotes(es) == [i \in 1..Len(es) |-> [date |-> FormatDate(es[i].creationDate), text |-> Strip(es[i].text)]]

\* contains_persian = any(is_persian(note['text']) for note in notes)
contains_persian(ns) == \E i \in 1..Len(ns) : is_persian(ns[i].text)

RECURSIVE SectionsOf(_, _)
\* h1_sections: the sections of every note, each with the date of its note
SectionsOf(ns, dual) ==
    IF ns = <<>> THEN <<>>
    ELSE LET n == Head(ns)
             ss == IF dual THEN split_content_by_h1_dual(n.text) ELSE split_content_by_h1(n.text)
         IN [i \in 1..Len(ss) |-> [date |-> n.date, title |-> ss[i].title,
                                   has_title |-> ss[i].has_title, content |-> ss[i].content]]
            \o SectionsOf(Tail(ns), dual)

h1_sections(ns, sc) == SectionsOf(ns, sc = "dual")

\* has_titles without the test of the first title
has_titles_any_section(ns, sc) == h1_sections(ns, sc) # <<>>

\* whether the emitters make one chapter per section: "if h1_sections" in
\* JSON-converter.py and part_000, has_titles / has_titles_epub in the dual script
has_titles(ns, sc) ==
    LET hs == h1_sections(ns, sc)
    IN IF sc = "dual" THEN hs # <<>> /\ hs[1].has_title ELSE hs # <<>>

\* section['content'].split('\n', 1)[-1]
content_without_h1(content) ==
    LET p == FindLit(content, 1, <<NL>>)
    IN IF p = 0 THEN content ELSE Slice(content, p + 1, Len(content))

S_Entry == <<"E", "n", "t", "r", "y", " ">>
S_None == <<"N", "o", "n", "e">>

\* str(title) in an f-string: the title None prints as "None"
TitleText(sec) == IF sec.has_title THEN sec.title ELSE S_None

\* the chapters of the EPUB: the number in the file name, the title, the level
\* of the heading line written before the body (0: none), the date line
\* (has_date), and the body, already HTML
EpubChapters(ns, sc) ==
    LET hs == h1_sections(ns, sc)
    IN IF has_titles(ns, sc)
       THEN [i \in 1..Len(hs) |->
               [file |-> i, title |-> hs[i].title, has_title |-> hs[i].has_title,
                head |-> IF sc = "p0" THEN 0 ELSE IF sc = "single" THEN 2 ELSE 1,
                date |-> hs[i].date, has_date |-> TRUE,
                body |-> IF sc = "p0" THEN markdown_to_html_p0(hs[i].content)
                         ELSE IF sc = "single" THEN markdown_to_html(content_without_h1(hs[i].content))
                         ELSE markdown_to_html_dual(content_without_h1(hs[i].content))]]
       ELSE [i \in 1..Len(ns) |->
               [file |-> i, title |-> S_Entry \o ns[i].date, has_title |-> TRUE,
                head |-> 1, date |-> ns[i].date, has_date |-> FALSE,
                body |-> IF sc = "p0" THEN markdown_to_html_p0(ns[i].text)
                         ELSE IF sc = "single" THEN markdown_to_html(ns[i].text)
                         ELSE markdown_to_html_dual(ns[i].text)]]

\* the <html ...> attributes of the HTML file
html_attrs(ns, sc) ==
    IF sc = "dual" /\ contains_persian(ns) THEN "lang=fa dir=rtl" ELSE "lang=en"

\* lettrine_is_active without the test for Persian text
lettrine_is_active_any_text(use, ns) == use

\* lettrine_is_active = USE_LETTRINE_IN_LATEX and not contains_persian
lettrine_is_active(use, ns) == use /\ ~contains_persian(ns)

\* the packages of the LaTeX preamble that depend on the run (dual script), or
\* the fixed inputenc line of the other two scripts
TexPreamble(ns, sc, use) ==
    IF sc = "dual"
    THEN (IF lettrine_is_active(use, ns) THEN <<"lettrine">> ELSE <<>>)
         \o (IF contains_persian(ns) THEN <<"xepersian", "settextfont">> ELSE <<"inputenc">>)
    ELSE <<"inputenc">>

---------------------------------------------------------------------------
(* The inputs of a run                                                     *)

\* the lines a note is made of: two level-1 headings, the second titled by the
\* character U+06FF; a line of text with U+05FF and U+0700 in it; a line
\* that is the one character U+0600; and a line with a character LaTeX escapes
Line_A == <<"#", " ", "A">>
Line_B == <<"#", " ", "fz">>
Line_b == <<"b", "lo", "hi">>
Line_fa == <<"fa">>
Line_pct == <<"5", "%">>
InputLines == {Line_A, Line_B, Line_b, Line_fa, Line_pct}

Stamp_1 == <<"2", "0", "2", "4", "-", "0", "1", "-", "0", "1", "T", "0", "9", ":", "0", "0", ":", "0", "0", "Z">>
Stamp_2 == <<"2", "0", "2", "4", "-", "0", "1", "-", "0", "2", "T", "0", "8", ":", "0", "0", ":", "0", "0", "Z">>
Stamps == {Stamp_1, Stamp_2}

\* the lines of the whole input file, over all its entries
MaxLines == 3

TextsOf(n) == {Join(ls, <<NL>>) : ls \in [1..n -> InputLines]}

RECURSIVE EntryLists(_)
\* the entry lists whose texts have at most budget lines together
EntryLists(budget) ==
    {<<>>} \cup
    UNION {UNION {{<<[creationDate |-> d, text |-> t]>> \o rest : rest \in EntryLists(budget - n)}
                  : <<d, t>> \in Stamps \X TextsOf(n)}
           : n \in 1..budget}

\* the lines of a .md input file
MdLines == 2

\* the contents a .md input file can have
MdTexts == UNION {TextsOf(n) : n \in 0..MdLines}

\* the extensions of input_filename: part_000 reads a JSON file whatever its name
Extensions(sc) == IF sc = "p0" THEN {"json"} ELSE {"json", "md", "txt"}

\* nothing on disk and nothing printed: folder is the output folder, files the
\* output files written, printed the messages printed, summary the files the
\* final summary lists
NoOut == [folder |-> FALSE, files |-> {}, printed |-> {}, html |-> <<>>, md |-> <<>>,
          txt |-> <<>>, tex |-> <<>>, docx |-> <<>>, epub |-> <<>>, summary |-> {}]

Init ==
    /\ script \in Scripts
    /\ ext \in Extensions(script)
    /\ entries \in (IF ext = "json" THEN EntryLists(MaxLines) ELSE {<<>>})
    /\ use_lettrine \in (IF script = "dual" THEN BOOLEAN ELSE {FALSE})
    /\ pc = (IF script = "p0" THEN "load" ELSE "setup")
    /\ notes = <<>>
    /\ out = NoOut
    /\ text \in (IF ext = "md" THEN MdTexts ELSE {<<>>})
    /\ fn = "run"
    /\ res = <<>>

---------------------------------------------------------------------------
(* The steps of a run, in the order of the script                          *)

\* the step after step p
Following(sc, p) ==
    IF sc = "p0"
    THEN CASE p = "load" -> "txt" [] p = "txt" -> "tex" [] p = "tex" -> "docx"
           [] p = "docx" -> "pdf" [] p = "pdf" -> "epub" [] p = "epub" -> "summary"
           [] p = "summary" -> "done"
    ELSE CASE p = "load" -> "html" [] p = "html" -> "md" [] p = "md" -> "txt"
           [] p = "txt" -> "tex" [] p = "tex" -> "docx" [] p = "docx" -> "pdf"
           [] p = "pdf" -> "epub" [] p = "epub" -> "summary" [] p = "summary" -> "done"

Step(p) == pc = p /\ pc' = Following(script, p)

Frame == UNCHANGED <<script, ext, entries, use_lettrine, text, fn, res>>

\* os.makedirs(folder_name, exist_ok=True): the output folder is made before
\* the input file is looked at (part_000 writes beside the script)
Setup ==
    /\ pc = "setup"
    /\ pc' = "load"
    /\ out' = [out EXCEPT !.folder = TRUE]
    /\ UNCHANGED notes
    /\ Frame

\* print(...); exit()
Exit(message) ==
    /\ pc' = "exit"
    /\ notes' = notes
    /\ out' = [out EXCEPT !.printed = @ \cup {message}]

\* the note of a .md file: its content, dated by the time the file was changed
MdNote(stamp, md_content) == <<[date |-> FormatDate(stamp), text |-> Strip(md_content)]>>

\* the loader; part_000 neither tests for entries nor sorts them.  A missing
\* "entries" key and an empty list are the same to data.get("entries", [])
Load ==
    /\ pc = "load"
    /\ IF script = "p0"
       THEN notes' = MakeNotes(entries) /\ pc' = Following(script, "load") /\ out' = out
       ELSE IF ext = "json"
       THEN IF entries = <<>>
            THEN Exit("no_entries")
            ELSE /\ notes' = MakeNotes(SortEntries(entries))
                 /\ pc' = Following(script, "load")
                 /\ out' = out
       ELSE IF ext = "md"
       THEN /\ \E mod_time \in Stamps : notes' = MdNote(mod_time, text)
            /\ pc' = Following(script, "load")
            /\ out' = out
       ELSE Exit("unsupported")
    /\ Frame

Html(sc, t) == IF sc = "dual" THEN markdown_to_html_dual(t)
               ELSE IF sc = "p0" THEN markdown_to_html_p0(t) ELSE markdown_to_html(t)

Plain(sc, t) == IF sc = "p0" THEN markdown_to_plain_text_p0(t) ELSE markdown_to_plain_text(t)

Docx(sc, t) == IF sc = "p0" THEN add_markdown_to_docx_p0(t) ELSE add_markdown_to_docx(t)

WriteHtml ==
    /\ Step("html")
    /\ out' = [out EXCEPT !.files = @ \cup {"html"},
                          !.html = [attrs |-> html_attrs(notes, script),
                                    entries |-> [i \in 1..Len(notes) |->
                                        [date |-> notes[i].date,
                                         content |-> Html(script, notes[i].text)]]]]
    /\ UNCHANGED notes
    /\ Frame

WriteMd ==
    /\ Step("md")
    /\ out' = [out EXCEPT !.files = @ \cup {"md"}, !.md = notes]
    /\ UNCHANGED notes
    /\ Frame

WriteTxt ==
    /\ Step("txt")
    /\ out' = [out EXCEPT !.files = @ \cup {"txt"},
                          !.txt = [i \in 1..Len(notes) |->
                                      [date |-> notes[i].date,
                                       content |-> Plain(script, notes[i].text)]]]
    /\ UNCHANGED notes
    /\ Frame

\* TexBlock with the escaping decided by the text of the chapter alone
TexBlock_per_note(t) ==
    LET processed_text == markdown_to_latex_dual(t, is_persian(t))
    IN IF lettrine_is_active(use_lettrine, notes) THEN apply_lettrine_to_content(processed_text)
       ELSE processed_text

\* what the dual script writes for one chapter of the LaTeX file
TexBlock(t) ==
    LET processed_text == markdown_to_latex_dual(t, contains_persian(notes))
    IN IF lettrine_is_active(use_lettrine, notes) THEN apply_lettrine_to_content(processed_text)
       ELSE processed_text

\* the chapters of the LaTeX file: the \section line written before the block
\* (has_section) and the block
TexBody ==
    IF script = "dual"
    THEN IF has_titles(notes, script)
         THEN LET hs == h1_sections(notes, script)
              IN [i \in 1..Len(hs) |-> [date |-> hs[i].date, has_section |-> FALSE,
                                        content |-> TexBlock(hs[i].content)]]
         ELSE [i \in 1..Len(notes) |-> [date |-> notes[i].date, has_section |-> TRUE,
                                        content |-> TexBlock(notes[i].text)]]
    ELSE [i \in 1..Len(notes) |->
             [date |-> notes[i].date, has_section |-> FALSE,
              content |-> IF script = "p0" THEN markdown_to_latex_p0(notes[i].text)
                          ELSE markdown_to_latex(notes[i].text)]]

WriteTex ==
    /\ Step("tex")
    /\ out' = [out EXCEPT !.files = @ \cup {"tex"},
                          !.tex = [preamble |-> TexPreamble(notes, script, use_lettrine),
                                   by_titles |-> script = "dual" /\ has_titles(notes, script),
                                   body |-> TexBody]]
    /\ UNCHANGED notes
    /\ Frame

WriteDocx ==
    /\ Step("docx")
    /\ out' = [out EXCEPT !.files = @ \cup {"docx"},
                          !.docx = [i \in 1..Len(notes) |->
                                       [date |-> notes[i].date,
                                        content |-> Docx(script, notes[i].text)]]]
    /\ UNCHANGED notes
    /\ Frame

\* ConvertPdf without the try block: a failed conversion ends the run
ConvertPdf_uncaught ==
    /\ pc = "pdf"
    /\ \E converted \in BOOLEAN :
          /\ pc' = (IF converted THEN "epub" ELSE "exit")
          /\ out' = [out EXCEPT !.files = IF converted THEN @ \cup {"pdf"} ELSE @,
                                !.printed = @ \cup {IF converted THEN "pdf_saved" ELSE "pdf_failed"}]
    /\ UNCHANGED notes
    /\ Frame

\* convert(docx, pdf) in a try block: it writes the file or raises, and the
\* script goes on either way
ConvertPdf ==
    /\ Step("pdf")
    /\ \E converted \in BOOLEAN :
          out' = [out EXCEPT !.files = IF converted THEN @ \cup {"pdf"} ELSE @,
                             !.printed = @ \cup {IF converted THEN "pdf_saved" ELSE "pdf_failed"}]
    /\ UNCHANGED notes
    /\ Frame

\* WriteEpub that opens cover.jpg without asking whether it exists
WriteEpub_open_cover ==
    /\ pc = "epub"
    /\ \E cover_exists \in BOOLEAN :
          IF cover_exists
          THEN /\ pc' = "summary"
               /\ out' = [out EXCEPT !.files = @ \cup {"epub"},
                                     !.printed = @ \cup {"cover_added"},
                                     !.epub = [cover_exists |-> TRUE, cover |-> TRUE,
                                               by_titles |-> has_titles(notes, script),
                                               chapters |-> EpubChapters(notes, script)]]
          ELSE /\ pc' = "exit"
               /\ out' = [out EXCEPT !.epub = [cover_exists |-> FALSE, cover |-> FALSE,
                                               by_titles |-> FALSE, chapters |-> <<>>]]
    /\ UNCHANGED notes
    /\ Frame

\* os.path.exists("cover.jpg") decides between set_cover and the warning
WriteEpub ==
    /\ Step("epub")
    /\ \E cover_exists \in BOOLEAN :
          out' = [out EXCEPT !.files = @ \cup {"epub"},
                             !.printed = @ \cup {IF cover_exists THEN "cover_added" ELSE "cover_missing"},
                             !.epub = [cover_exists |-> cover_exists,
                                       cover |-> cover_exists,
                                       by_titles |-> has_titles(notes, script),
                                       chapters |-> EpubChapters(notes, script)]]
    /\ UNCHANGED notes
    /\ Frame

\* the files the final summary lists; the dual script lists the .pdf when
\* os.path.exists finds one
Listed(sc, on_disk) ==
    IF sc = "p0" THEN {"txt", "tex", "docx", "pdf", "epub"}
    ELSE IF sc = "single" THEN {"html", "md", "txt", "tex", "docx", "pdf", "epub"}
    ELSE {"html", "md", "txt", "tex", "docx", "epub"} \cup (on_disk \cap {"pdf"})

\* the final summary.  The output folder may hold a .pdf of an earlier run of
\* the same day (makedirs has exist_ok=True): os.path.exists finds that one too
Summary ==
    /\ Step("summary")
    /\ \E pdf_from_before \in (IF script = "dual" THEN BOOLEAN ELSE {FALSE}) :
          out' = [out EXCEPT !.printed = @ \cup {"summary"},
                             !.summary = Listed(script, out.files \cup
                                             (IF pdf_from_before THEN {"pdf"} ELSE {}))]
    /\ UNCHANGED notes
    /\ Frame

Next ==
    \/ Setup
    \/ Load
    \/ WriteHtml
    \/ WriteMd
    \/ WriteTxt
    \/ WriteTex
    \/ WriteDocx
    \/ ConvertPdf
    \/ WriteEpub
    \/ Summary

Spec == Init /\ [][Next]_vars

---------------------------------------------------------------------------
(* The rewriters on their own: a text is chosen, and one of the functions   *)
(* of the chosen script is applied to it.                                   *)

\* the examples of the specification
Ex_bold == <<"*", "*", "b", "o", "l", "d", "*", "*">>
Ex_italics == <<"*", "a", "*", " ", "*", "b", "*">>
Ex_stacked == <<"*", "*", "*", "*", "a", "*", "*", "*", "*">>
Ex_heading_twice == <<"#", " ", "#", " ", "T", "i", "t", "l", "e">>
Ex_heading == <<"#", " ", "T", "i", "t", "l", "e">>
Ex_no_heading == <<"#", "T", "i", "t", "l", "e">>
Ex_fence == <<BQ, BQ, BQ, NL, "a", NL, BQ, BQ, BQ>>
Ex_escape == <<"5", "0", "%", " ", "o", "f", "f", " ", "&", " ", "d", "o", "n", "e", "_", "d", "e", "a", "l">>
Ex_heading_percent == <<"#", " ", "5", "0", "%", " ", "o", "f", "f">>
Ex_text_then_heading == <<"a", NL, "#", " ", "T">>
Ex_indented_heading == <<" ", "#", " ", "T">>
Ex_triple == <<"*", "*", "*", "t", "e", "x", "t", "*", "*", "*">>
Ex_fence_italic == <<BQ, BQ, BQ, NL, "a", "*", "b", "*", "c", NL, BQ, BQ, BQ>>
Ex_fence_bold == <<BQ, BQ, BQ, NL, "*", "*", "x", "*", "*", NL, BQ, BQ, BQ>>
Ex_fence_heading == <<BQ, BQ, BQ, NL, "#", " ", "h", NL, BQ, BQ, BQ>>
Ex_fence_lang == <<BQ, BQ, BQ, "p", "y", NL, "a", "_", "b", NL, BQ, BQ, BQ>>
Ex_fence_blank == <<BQ, BQ, BQ, NL, "a", NL, NL, "b", NL, BQ, BQ, BQ>>
Ex_lone_underscore == <<"_">>
Ex_lone_backquote == <<BQ>>
Ex_apostrophe == <<"d", "o", "n", "'", "t", " ", "g", "o">>
Ex_abbreviation == <<"e", ".", "g", ".", " ", "x">>
Ex_ampersand == <<"A", "&", "B">>
Ex_heading_then_text == <<"#", " ", "T", NL, NL, "O", "n", "c", "e", ",", " ", "u", "p", "o", "n", NL, "a">>
Examples ==
    {Ex_bold, Ex_italics, Ex_stacked, Ex_heading_twice, Ex_heading, Ex_no_heading, Ex_fence,
     Ex_escape, Ex_heading_percent, Ex_text_then_heading, Ex_indented_heading,
     Ex_triple, Ex_fence_italic, Ex_fence_bold, Ex_fence_heading, Ex_fence_lang,
     Ex_fence_blank, Ex_lone_underscore, Ex_lone_backquote,
     Ex_apostrophe, Ex_abbreviation, Ex_ampersand, Ex_heading_then_text}

\* the characters the other texts are made of, and their greatest length
Alphabet == {"#", " ", "a", "*", NL, TAB}
MaxLen == 4

\* list texts: a bullet line, a numbered line and a line that is neither, in
\* every order, up to MaxListLines lines
List_bullet == <<"-", " ", "a">>
List_numbered == <<"1", ".", " ", "b">>
List_other == <<"c">>
MaxListLines == 3
ListTexts ==
    UNION {{Join(ls, <<NL>>) : ls \in [1..n -> {List_bullet, List_numbered, List_other}]}
           : n \in 1..MaxListLines}

Texts == Examples \cup ListTexts \cup UNION {[1..n -> Alphabet] : n \in 0..MaxLen}

InitText ==
    /\ script \in Scripts
    /\ ext = "json"
    /\ text \in Texts
    /\ fn = "none"
    /\ res = <<>>
    /\ pc = "text"
    /\ entries = <<>>
    /\ notes = <<>>
    /\ use_lettrine = FALSE
    /\ out = NoOut

\* markdown_to_latex of each script, in left-to-right mode
Latex(sc, t) == IF sc = "dual" THEN markdown_to_latex_dual(t, FALSE)
                ELSE IF sc = "p0" THEN markdown_to_latex_p0(t) ELSE markdown_to_latex(t)

SplitH1(sc, t) == IF sc = "dual" THEN split_content_by_h1_dual(t) ELSE split_content_by_h1(t)

FrameText == UNCHANGED <<script, ext, pc, entries, notes, use_lettrine, out, text>>

ApplyPlain == fn = "none" /\ fn' = "plain" /\ res' = Plain(script, text) /\ FrameText

\* the plain-text rewriter applied to its own result
ApplyPlainAgain == fn = "plain" /\ fn' = "plain2" /\ res' = Plain(script, res) /\ FrameText

ApplyLatex == fn = "none" /\ fn' = "latex" /\ res' = Latex(script, text) /\ FrameText

\* the dual script with the lettrine on: apply_lettrine_to_content on the
\* processed_text of a chapter
ApplyLettrine ==
    /\ script = "dual"
    /\ fn = "latex"
    /\ fn' = "lettrine"
    /\ res' = apply_lettrine_to_content(res)
    /\ FrameText

ApplyHtml == fn = "none" /\ fn' = "html" /\ res' = Html(script, text) /\ FrameText

ApplyDocx == fn = "none" /\ fn' = "docx" /\ res' = Docx(script, text) /\ FrameText

ApplySplit == fn = "none" /\ fn' = "split" /\ res' = SplitH1(script, text) /\ FrameText

NextText ==
    \/ ApplyPlain
    \/ ApplyPlainAgain
    \/ ApplyLatex
    \/ ApplyLettrine
    \/ ApplyHtml
    \/ ApplyDocx
    \/ ApplySplit

SpecText == InitText /\ [][NextText]_vars

---------------------------------------------------------------------------
(* The claims of the specification                                          *)

\* the lines of a text that start with '# ', in their order
HeadingLines(t) == SelectSeq(Split(t, <<NL>>), LAMBDA line : StartsWith(line, H1Mark))

\* the stripped text of a heading line
HeadingText(line) == Strip(Slice(line, 3, Len(line)))

RECURSIVE HeadingTexts(_)
\* the heading texts of the notes: note after note, heading after heading
HeadingTexts(ns) ==
    IF ns = <<>> THEN <<>>
    ELSE [i \in 1..Len(HeadingLines(Head(ns).text)) |-> HeadingText(HeadingLines(Head(ns).text)[i])]
         \o HeadingTexts(Tail(ns))

\* some note has a line that starts with '# '
AnyHeading(ns) == \E i \in 1..Len(ns) : HeadingLines(ns[i].text) # <<>>

\* every note has a line that starts with '# '
EveryNoteHasHeading(ns) == \A i \in 1..Len(ns) : HeadingLines(ns[i].text) # <<>>

\* the EPUB file has been written
EpubWritten == pc \in {"summary", "done"}

\* C1: the contents of the sections split_content_by_h1 returns, put together
\* in their order (a line break between two sections), are the text again: no
\* line is lost, doubled or moved.
C1_ContentsGiveBackText ==
    fn = "split" => Join([i \in 1..Len(res) |-> res[i].content], <<NL>>) = text

\* C2: when every note has a line starting with '# ' (one note with k >= 1 such
\* lines, or several such notes), the EPUB has one chapter per such line, titled
\* by the stripped text of the line, in note order and then heading order.
C2_ChapterPerHeading ==
    (EpubWritten /\ notes # <<>> /\ EveryNoteHasHeading(notes))
        => /\ Len(out.epub.chapters) = Len(HeadingTexts(notes))
           /\ \A i \in 1..Len(out.epub.chapters) :
                 /\ out.epub.chapters[i].has_title
                 /\ out.epub.chapters[i].title = HeadingTexts(notes)[i]

\* a run with two notes, the first with two headings: three chapters A, U+06FF, A
C2_Witness ==
    /\ EpubWritten
    /\ Len(notes) = 2
    /\ Len(HeadingLines(notes[1].text)) = 2
    /\ Len(HeadingLines(notes[2].text)) = 1
    /\ [i \in 1..Len(out.epub.chapters) |-> out.epub.chapters[i].title]
          = << <<"A">>, <<"fz">>, <<"A">> >>

\* C3: when no note has a line starting with '# ' (and there is a note), the
\* EPUB has one chapter per note, in note order, chapter i titled
\* "Entry <date of note i>".
C3_ChapterPerNote ==
    (EpubWritten /\ notes # <<>> /\ ~AnyHeading(notes))
        => /\ Len(out.epub.chapters) = Len(notes)
           /\ \A i \in 1..Len(notes) :
                 /\ out.epub.chapters[i].has_title
                 /\ out.epub.chapters[i].title = S_Entry \o notes[i].date

\* a run with two notes of different dates and no heading: two chapters
C3_Witness ==
    /\ EpubWritten
    /\ Len(notes) = 2
    /\ ~AnyHeading(notes)
    /\ notes[1].date # notes[2].date
    /\ Len(out.epub.chapters) = 2
    /\ out.epub.chapters[2].title = S_Entry \o notes[2].date

\* C4: the EPUB and the LaTeX emitter of the dual-language script write one
\* chapter per note exactly when no note, at whatever place, has a line
\* starting with '# '.
C4_FallbackIffNoHeading ==
    (script = "dual" /\ EpubWritten)
        => /\ out.epub.by_titles <=> AnyHeading(notes)
           /\ out.tex.by_titles <=> AnyHeading(notes)

\* C5: markdown_to_plain_text is idempotent: applied to its own result it
\* gives that result again, for every text (stacked markers included).
C5_PlainTextIdempotent == fn = "plain2" => res = Plain(script, text)

\* the delimiter characters of the constructs
Markers == {"*", "_", BQ, "#", "[", "]"}

HasMarker(t) == \E k \in 1..Len(t) : t[k] \in Markers

\* the patterns of the constructs markdown_to_plain_text names
ConstructPatterns == {"headingS", "bold", "anyItalic", "link", "code", "fence"}

\* the whole text is one construct whose content has no delimiter character:
\* every delimiter character of the text belongs to the construct
WholeConstruct(t) ==
    \E pat \in ConstructPatterns :
        /\ t # <<>>
        /\ MatchAt(pat, t, 1).end = Len(t)
        /\ ~HasMarker(MatchAt(pat, t, 1).g1)

\* C6: the result of markdown_to_plain_text is never longer than the text, and
\* no delimiter character of a recognized construct is left in it (stated for
\* the texts that are one construct: then the result has no such character).
C6_PlainTextShorterNoMarkers ==
    fn = "plain" => /\ Len(res) <= Len(text)
                    /\ WholeConstruct(text) => ~HasMarker(res)

\* a line that begins with 1 to 6 '#' followed at once by a space
IsHeadingLine(line) ==
    \E n \in 1..6 : /\ Len(line) >= n + 1
                    /\ \A k \in 1..n : line[k] = "#"
                    /\ line[n + 1] = " "

NoHeadingLine(t) == \A i \in 1..Len(Split(t, <<NL>>)) : ~IsHeadingLine(Split(t, <<NL>>)[i])

NoInlineMarker(t) == \A k \in 1..Len(t) : t[k] \notin {"*", "_", BQ, "[", "]"}

Contains(t, lit) == FindLit(t, 1, lit) # 0

\* C7: in every rewriter and in split_content_by_h1 a line is a heading only if
\* it begins with 1 to 6 '#' followed at once by a space on the same line (not
\* by a tab, not by the line end): a text without such a line gets no heading
\* treatment; '# Title' is a heading and '#Title' is none.
C7_HeadingNeedsSpace ==
    /\ (fn = "plain" /\ NoHeadingLine(text) /\ NoInlineMarker(text)) => res = text
    /\ (fn = "html" /\ NoHeadingLine(text)) => ~Contains(res, <<"<", "h">>)
    /\ (fn = "latex" /\ NoHeadingLine(text))
          => /\ ~Contains(res, <<BS, "s", "e", "c", "t", "i", "o", "n">>)
             /\ ~Contains(res, <<BS, "s", "u", "b", "s">>)
             /\ ~Contains(res, <<BS, "p", "a", "r", "a">>)
    /\ (fn = "docx" /\ NoHeadingLine(text)) => \A i \in 1..Len(res) : res[i].kind # "heading"
    /\ (fn = "split" /\ NoHeadingLine(text)) => \A i \in 1..Len(res) : ~res[i].has_title
    /\ (fn = "plain" /\ text = Ex_heading) => res = <<"T", "i", "t", "l", "e">>
    /\ (fn = "html" /\ text = Ex_heading) => Contains(res, <<"<", "h", "1", ">", "T", "i", "t", "l", "e">>)
    /\ (fn = "latex" /\ text = Ex_heading)
          => res = <<BS, "s", "e", "c", "t", "i", "o", "n", "{", "T", "i", "t", "l", "e", "}">>
    /\ (fn = "docx" /\ text = Ex_heading)
          => res = <<[kind |-> "heading", level |-> 1, text |-> <<"T", "i", "t", "l", "e">>]>>
    /\ (fn = "split" /\ text = Ex_heading)
          => Len(res) = 1 /\ res[1].has_title /\ res[1].title = <<"T", "i", "t", "l", "e">>

\* C8: markdown_to_latex in left-to-right mode (JSON-converter.py and the
\* dual-language script) writes every & _ # % $ of its result behind a
\* backslash, on every line; "50% off & done_deal" becomes
\* "50\% off \& done\_deal".
C8_LatexEscapesSpecials ==
    (fn = "latex" /\ script \in {"single", "dual"})
        => /\ \A k \in 1..Len(res) :
                 res[k] \in {"&", "_", "#", "%", "$"} => (k > 1 /\ res[k - 1] = BS)
           /\ text = Ex_escape
                 => res = <<"5", "0", BS, "%", " ", "o", "f", "f", " ", BS, "&", " ",
                            "d", "o", "n", "e", BS, "_", "d", "e", "a", "l">>

\* the runs of a document of one paragraph that have text
VisibleRuns(doc) == SelectSeq(doc[1].runs, LAMBDA r : r.text # <<>>)

\* C9: in the HTML, LaTeX and docx rewriters '**bold**' is one bold span with
\* the text 'bold' and no italic span; '*a* *b*' is two italic spans, 'a' and
\* 'b', with the space between them in neither.
C9_BoldAndItalicSpans ==
    /\ (fn = "html" /\ text = Ex_bold)
          => res = <<"<", "p", ">", "<", "s", "t", "r", "o", "n", "g", ">", "b", "o", "l", "d",
                     "<", "/", "s", "t", "r", "o", "n", "g", ">", "<", "/", "p", ">">>
    /\ (fn = "html" /\ text = Ex_italics)
          => res = <<"<", "p", ">", "<", "e", "m", ">", "a", "<", "/", "e", "m", ">", " ",
                     "<", "e", "m", ">", "b", "<", "/", "e", "m", ">", "<", "/", "p", ">">>
    /\ (fn = "latex" /\ text = Ex_bold)
          => res = <<BS, "t", "e", "x", "t", "b", "f", "{", "b", "o", "l", "d", "}">>
    /\ (fn = "latex" /\ text = Ex_italics)
          => res = <<BS, "t", "e", "x", "t", "i", "t", "{", "a", "}", " ",
                     BS, "t", "e", "x", "t", "i", "t", "{", "b", "}">>
    /\ (fn = "docx" /\ text = Ex_bold)
          => /\ Len(res) = 1
             /\ res[1].kind = "para"
             /\ VisibleRuns(res) = <<[text |-> <<"b", "o", "l", "d">>, style |-> "bold"]>>
    /\ (fn = "docx" /\ text = Ex_italics)
          => /\ Len(res) = 1
             /\ res[1].kind = "para"
             /\ VisibleRuns(res) = <<[text |-> <<"a">>, style |-> "italic"],
                                     [text |-> <<" ">>, style |-> "plain"],
                                     [text |-> <<"b">>, style |-> "italic"]>>

\* '**bold**' through add_markdown_to_docx: one paragraph, its one run with text bold
C9_Witness ==
    /\ fn = "docx"
    /\ text = Ex_bold
    /\ Len(res) = 1
    /\ VisibleRuns(res) = <<[text |-> <<"b", "o", "l", "d">>, style |-> "bold"]>>

\* some note has a character in U+0600..U+06FF
AnyPersianChar(ns) ==
    \E i \in 1..Len(ns) : \E k \in 1..Len(ns[i].text) :
        CodePoint(ns[i].text[k]) \in 1536..1791

\* the LaTeX file has been written
TexWritten == pc \in {"docx", "pdf", "epub", "summary", "done"}

\* C10: in the dual-language script the HTML root has dir="rtl", and the LaTeX
\* preamble loads xepersian and sets the font instead of loading inputenc,
\* exactly when some note has a character in U+0600..U+06FF; otherwise the root
\* is lang="en" and the preamble loads inputenc.
C10_RtlIffPersian ==
    (script = "dual" /\ TexWritten)
        => /\ out.html.attrs = "lang=fa dir=rtl" <=> AnyPersianChar(notes)
           /\ out.html.attrs = "lang=en" <=> ~AnyPersianChar(notes)
           /\ (\E i \in 1..Len(out.tex.preamble) : out.tex.preamble[i] = "xepersian")
                 <=> AnyPersianChar(notes)
           /\ (\E i \in 1..Len(out.tex.preamble) : out.tex.preamble[i] = "settextfont")
                 <=> AnyPersianChar(notes)
           /\ (\E i \in 1..Len(out.tex.preamble) : out.tex.preamble[i] = "inputenc")
                 <=> ~AnyPersianChar(notes)

\* a run of the dual-language script whose only Persian character is U+06FF,
\* in the second note: right-to-left output
C10_Witness ==
    /\ script = "dual"
    /\ pc = "done"
    /\ Len(notes) = 2
    /\ notes[1].text = Line_b
    /\ notes[2].text = Line_B
    /\ out.html.attrs = "lang=fa dir=rtl"
    /\ out.tex.preamble = <<"xepersian", "settextfont">>

\* cover.jpg was looked for and not found
CoverMissing == EpubWritten /\ ~out.epub.cover_exists

\* C11: when cover.jpg does not exist the warning is printed, no cover is set,
\* the EPUB is written with all its chapters, and the step after the EPUB is
\* the final summary (no step ends the run before it).
C11_MissingCoverNotFatal ==
    /\ [](CoverMissing
             => /\ "cover_missing" \in out.printed
                /\ ~out.epub.cover
                /\ "epub" \in out.files
                /\ out.epub.chapters = EpubChapters(notes, script)
                /\ notes # <<>> => out.epub.chapters # <<>>)
    /\ [][pc = "epub" => pc' = "summary"]_vars
    /\ [][pc = "summary" => (pc' = "done" /\ "summary" \in out'.printed)]_vars

\* a finished run of two notes without a cover: an EPUB of two chapters
C11_Witness ==
    /\ pc = "done"
    /\ CoverMissing
    /\ Len(notes) = 2
    /\ Len(out.epub.chapters) = 2
    /\ "epub" \in out.files
    /\ "summary" \in out.printed

\* the content of the files written before the PDF step
WrittenBeforePdf(o) == <<o.files \ {"pdf"}, o.html, o.md, o.txt, o.tex, o.docx>>

\* C12: a failed DOCX-to-PDF conversion is reported as a warning, produces no
\* .pdf, leaves the files written before it as they are, and the run goes on:
\* its next steps write the .epub and print the final summary.
C12_PdfFailureNotFatal ==
    /\ [][pc = "pdf" => /\ WrittenBeforePdf(out') = WrittenBeforePdf(out)
                        /\ pc' = "epub"
                        /\ "pdf_failed" \in out'.printed <=> "pdf" \notin out'.files]_vars
    /\ []("pdf_failed" \in out.printed
             => /\ "pdf" \notin out.files
                /\ pc \in {"epub", "summary", "done"}
                /\ pc \in {"summary", "done"} => "epub" \in out.files
                /\ pc = "done" => "summary" \in out.printed)

\* a finished run whose conversion failed: every file but the .pdf is there
C12_Witness ==
    /\ pc = "done"
    /\ script = "single"
    /\ "pdf_failed" \in out.printed
    /\ out.files = {"html", "md", "txt", "tex", "docx", "epub"}
    /\ notes # <<>>

\* C13: in JSON-converter.py and the dual-language script, with no entries in
\* the JSON input or with an extension that is neither .json nor .md, the run
\* prints a diagnostic and ends before any emitter runs: no output file exists
\* and nothing has been created on disk.
C13_InputErrorWritesNothing ==
    (script # "p0" /\ (ext = "txt" \/ (ext = "json" /\ entries = <<>>)))
        => /\ pc \in {"setup", "load", "exit"}
           /\ out.files = {}
           /\ ~out.folder
           /\ pc = "exit" => out.printed \in {{"no_entries"}, {"unsupported"}}

RECURSIVE StableOrder(_, _)
\* the entries in ascending order of creationDate, those of one creationDate
\* in their order in es: stamp after stamp, the entries that have it
StableOrder(es, stamps) ==
    IF stamps = {} THEN <<>>
    ELSE LET least == CHOOSE d \in stamps : \A e \in stamps : ~StrLess(e, d)
         IN SelectSeq(es, LAMBDA x : x.creationDate = least)
            \o StableOrder(es, stamps \ {least})

\* the loader has run and the emitters go on
Loaded == pc \notin {"setup", "load", "exit"}

\* C14: after a JSON export is loaded, in each of the three scripts, there is
\* one note per entry, in ascending order of the creation timestamps, entries
\* of one timestamp in their order in the file.
C14_NotesSortedStable ==
    (Loaded /\ ext = "json")
        => notes = MakeNotes(StableOrder(entries, {entries[i].creationDate : i \in 1..Len(entries)}))

\* C15: when the final summary is printed, every file it lists has been
\* written earlier in the same run, also when the PDF conversion failed.
C15_SummaryListsWrittenFiles ==
    "summary" \in out.printed => out.summary \subseteq out.files

\* C16: for '***text***' the HTML and the LaTeX rewriter write at most one
\* emphasis construct around 'text': never <strong> together with <em>, never
\* \textbf together with \textit.
C16_TripleMarkerOneEmphasis ==
    /\ (fn = "html" /\ text = Ex_triple)
          => ~(Contains(res, H_strong) /\ Contains(res, H_em))
    /\ (fn = "latex" /\ text = Ex_triple)
          => ~(Contains(res, L_textbf) /\ Contains(res, L_textit))

\* the texts that are one fenced block, each with the lines between its fences
FencedBlocks ==
    {<<Ex_fence, <<"a">> >>,
     <<Ex_fence_italic, <<"a", "*", "b", "*", "c">> >>,
     <<Ex_fence_bold, <<"*", "*", "x", "*", "*">> >>,
     <<Ex_fence_heading, <<"#", " ", "h">> >>,
     <<Ex_fence_lang, <<"a", "_", "b">> >>,
     <<Ex_fence_blank, <<"a", NL, NL, "b">> >>}

\* the texts of the runs of a paragraph, one after the other
RECURSIVE RunTexts(_)
RunTexts(runs) == IF runs = <<>> THEN <<>> ELSE Head(runs).text \o RunTexts(Tail(runs))

\* the document has the line as a paragraph of plain runs
HasPlainParagraph(doc, line) ==
    \E i \in 1..Len(doc) :
        /\ doc[i].kind = "para"
        /\ RunTexts(doc[i].runs) = line
        /\ \A k \in 1..Len(doc[i].runs) : doc[i].runs[k].style = "plain"

\* C17: in every rewriter the lines between the fences of a fenced code block
\* are in the result as they are in the text: no rule and no escaping rewrites
\* a character of them.
C17_FencedBlockVerbatim ==
    \A b \in FencedBlocks :
        text = b[1]
           => /\ fn \in {"plain", "html", "latex"} => Contains(res, b[2])
              /\ fn = "docx" => \A i \in 1..Len(Split(b[2], <<NL>>)) :
                                  Split(b[2], <<NL>>)[i] # <<>>
                                     => HasPlainParagraph(res, Split(b[2], <<NL>>)[i])

\* C18: markdown_to_latex turns a fenced code block into \begin{verbatim},
\* the lines of the block unchanged, \end{verbatim}; no fence becomes
\* \texttt{...} and no character of the block is escaped.
C18_LatexFenceVerbatim ==
    \A b \in FencedBlocks :
        (fn = "latex" /\ text = b[1])
           => /\ res = L_begin_verbatim \o <<NL>> \o b[2] \o <<NL>> \o L_end_verbatim
              /\ ~Contains(res, L_texttt)

\* position k of the HTML text lies behind a <p> that no </p> has closed
InParagraph(h, k) ==
    \E i \in 1..(k - 1) : /\ IsAt(h, i, H_p)
                          /\ \A j \in i..(k - 1) : ~IsAt(h, j, H_p_end)

\* a heading tag or a <pre> tag, opening or closing, begins at position k
BlockTagAt(h, k) ==
    \/ IsAt(h, k, <<"<", "h">>)
    \/ IsAt(h, k, <<"<", "/", "h">>)
    \/ IsAt(h, k, <<"<", "p", "r", "e">>)
    \/ IsAt(h, k, <<"<", "/", "p", "r", "e">>)

\* C19: in the result of markdown_to_html no heading element and no <pre>
\* block, nor a part of one, lies inside <p>...</p>, also when a heading line
\* follows a text line directly and when a fenced block has an empty line.
C19_NoBlockInsideParagraph ==
    fn = "html" => \A k \in 1..Len(res) : BlockTagAt(res, k) => ~InParagraph(res, k)

\* lines that are marker characters without a partner
LoneMarkers == {<<"*">>, <<"*", "*">>, <<"*", "*", "*">>, Ex_lone_underscore, Ex_lone_backquote}

\* the text without its backslashes
Unescaped(t) == SelectSeq(t, LAMBDA c : c # BS)

\* C20: a line of marker characters that form no pair (*, **, ***, _, a
\* backquote) keeps its characters in every target, and the texts of the runs
\* add_markdown_to_docx emits for it are the line again.
C20_LoneMarkersStayLiteral ==
    text \in LoneMarkers
       => /\ fn = "plain" => res = text
          /\ fn = "html" => Contains(res, text)
          /\ fn = "latex" => Unescaped(res) = text
          /\ fn = "docx" => /\ Len(res) = 1
                            /\ res[1].kind = "para"
                            /\ RunTexts(res[1].runs) = text

\* C21: for a text with no line starting with '# ', split_content_by_h1 returns
\* exactly one section, with no title and with the whole text as its content;
\* and a section without title is returned for no other text (JSON-converter.py
\* and the dual-language script).
C21_NoHeadingOneUntitledSection ==
    (fn = "split" /\ script \in {"single", "dual"})
       => /\ HeadingLines(text) = <<>>
                => res = <<[title |-> <<>>, has_title |-> FALSE, content |-> text]>>
          /\ \A k \in 1..Len(res) : ~res[k].has_title => HeadingLines(text) = <<>>

\* the LaTeX file has a \lettrine command in one of its chapters
HasLettrineCommand == \E i \in 1..Len(out.tex.body) : Contains(out.tex.body[i].content, L_lettrine)

\* the preamble of the LaTeX file loads the lettrine package
HasLettrinePackage == \E i \in 1..Len(out.tex.preamble) : out.tex.preamble[i] = "lettrine"

\* C22: in a run of the dual-language script in which some note has a
\* character in U+0600..U+06FF the LaTeX file has neither the lettrine package
\* line nor a \lettrine command, whatever USE_LETTRINE_IN_LATEX is; the package
\* line and the commands appear only when USE_LETTRINE_IN_LATEX is true and no
\* note has such a character.
C22_LettrineOffUnderRtl ==
    (script = "dual" /\ TexWritten)
        => /\ AnyPersianChar(notes) => (~HasLettrinePackage /\ ~HasLettrineCommand)
           /\ (HasLettrinePackage \/ HasLettrineCommand)
                 => (use_lettrine /\ ~AnyPersianChar(notes))

\* USE_LETTRINE_IN_LATEX is true, a note starts with a word the command would
\* be put on, and another line has U+0600: the file is written without lettrine
C22_Witness ==
    /\ script = "dual"
    /\ TexWritten
    /\ use_lettrine
    /\ Len(notes) = 1
    /\ notes[1].text = Join(<<Line_b, Line_fa>>, <<NL>>)
    /\ apply_lettrine_to_content(out.tex.body[1].content) # out.tex.body[1].content
    /\ ~HasLettrinePackage
    /\ ~HasLettrineCommand

RECURSIVE WellBracketed(_, _)
\* the \begin and \end lines of the two list environments among the lines ls,
\* read with the environments still open in open (the last opened first):
\* every \end closes the last opened environment and nothing stays open
WellBracketed(ls, open) ==
    IF ls = <<>> THEN open = <<>>
    ELSE LET line == Head(ls)
         IN IF line = L_begin_itemize THEN WellBracketed(Tail(ls), <<"itemize">> \o open)
            ELSE IF line = L_begin_enumerate THEN WellBracketed(Tail(ls), <<"enumerate">> \o open)
            ELSE IF line = L_end_itemize
            THEN open # <<>> /\ Head(open) = "itemize" /\ WellBracketed(Tail(ls), Tail(open))
            ELSE IF line = L_end_enumerate
            THEN open # <<>> /\ Head(open) = "enumerate" /\ WellBracketed(Tail(ls), Tail(open))
            ELSE WellBracketed(Tail(ls), open)

\* C23: in the result of markdown_to_latex of the dual-language script the
\* \begin{itemize}/\end{itemize} and \begin{enumerate}/\end{enumerate} lines
\* are well-bracketed for every order of numbered, bullet and other lines,
\* also when the text ends inside a list.
C23_ListsWellBracketed ==
    (script = "dual" /\ fn = "latex") => WellBracketed(Split(res, <<NL>>), <<>>)

\* the places <<i, k>> where line k of note i is the given line
PlacesInNotes(ns, line) ==
    {ik \in UNION {{<<i, k>> : k \in 1..Len(Split(ns[i].text, <<NL>>))} : i \in 1..Len(ns)} :
        Split(ns[ik[1]].text, <<NL>>)[ik[2]] = line}

\* the places <<c, p>> where the body of chapter c has the given line at p
PlacesInChapters(chapters, line) ==
    {cp \in UNION {{<<c, p>> : p \in 1..Len(chapters[c].body)} : c \in 1..Len(chapters)} :
        IsAt(chapters[cp[1]].body, cp[2], line)}

\* the lines of the notes that are not empty and no '# ' heading line
ContentLines(ns) ==
    {line \in UNION {{Split(ns[i].text, <<NL>>)[k] : k \in 1..Len(Split(ns[i].text, <<NL>>))}
                     : i \in 1..Len(ns)} :
        line # <<>> /\ ~StartsWith(line, H1Mark)}

\* C24: the EPUB loses no note content: every line of a note that is not
\* empty and no '# ' heading line is in a chapter body as often as it is in
\* the notes, in heading mode too (notes without '# ' line, lines before the
\* first '# ' line of a note, the first line of a section without title).
C24_EpubKeepsEveryLine ==
    (EpubWritten /\ script \in {"single", "dual"})
        => \A line \in ContentLines(notes) :
              Cardinality(PlacesInChapters(out.epub.chapters, line))
                 >= Cardinality(PlacesInNotes(notes, line))

\* the line with its \lettrine[...]{X}{rest} command replaced by X and rest
Unlettrine(line) ==
    LET p == FindLit(line, 1, L_lettrine)
        x == p + Len(L_lettrine)
        c == FindLit(line, x + 3, L_close)
    IN IF p = 0 THEN line
       ELSE Slice(line, 1, p - 1) \o <<line[x]>> \o Slice(line, x + 3, c - 1)
            \o Slice(line, c + 1, Len(line))

\* the text without its white space
Unspaced(t) == SelectSeq(t, LAMBDA c : ~IsSpace(c))

\* C25: apply_lettrine_to_content changes at most one line of the text block,
\* the first line that is not empty, starts with no backslash and has a first
\* word starting with an ASCII letter or digit, and drops no text: with the
\* command replaced by its two arguments the line is the original line again
\* (white space aside), also when the first word goes on after a punctuation
\* character; every other line is unchanged.
C25_LettrineDropsNothing ==
    fn = "lettrine"
       => LET before == Split(Latex("dual", text), <<NL>>)
              after == Split(res, <<NL>>)
              targets == {i \in 1..Len(before) : LettrineTarget(before[i])}
          IN /\ Len(after) = Len(before)
             /\ \A i \in 1..Len(before) :
                   IF targets # {} /\ i = Min(targets)
                   THEN Unspaced(Unlettrine(after[i])) = Unspaced(before[i])
                   ELSE after[i] = before[i]

\* the characters markdown_to_latex escapes with a backslash
BackslashEscaped == {"&", "%", "$", "#", "_"}

\* the places of the chapter text t that hold such a character
SpecialPlaces(t) == {k \in 1..Len(t) : t[k] \in BackslashEscaped}

\* the character at place k has a backslash before it
EscapedAt(t, k) == k > 1 /\ t[k - 1] = BS

\* C26: in the dual-language script the LaTeX escaping is decided once for the
\* run: when some note has a character in U+0600..U+06FF no chapter of the
\* LaTeX file has an escaped character, the chapters of notes without such a
\* character included; when no note has one, every such character of every
\* chapter is escaped.
C26_EscapingDecidedPerRun ==
    (script = "dual" /\ TexWritten)
        => \A i \in 1..Len(out.tex.body) :
              \A k \in SpecialPlaces(out.tex.body[i].content) :
                 EscapedAt(out.tex.body[i].content, k) <=> ~AnyPersianChar(notes)

\* two notes, '5%' and the character U+0600: the chapter of the first note,
\* which has no character of the range, is written with its % unescaped
C26_Witness ==
    /\ script = "dual"
    /\ TexWritten
    /\ Len(notes) = 2
    /\ notes[1].text = Line_pct
    /\ notes[2].text = Line_fa
    /\ ~is_persian(notes[1].text)
    /\ out.tex.body[1].content = Line_pct

====
